---------------------------- MODULE Spec2Model ----------------------------
(***************************************************************************)
(* AutoCFO: the FinancialEngine pipeline of src/src/engine.py (ledger      *)
(* loading and cleaning, keyword classification, aggregation, workbook     *)
(* writing and Dashboard layout) and the Top Metrics of                    *)
(* src/src/dashboard.py.                                                   *)
(*                                                                         *)
(* Text is a sequence of one-character strings, so that lower-casing,      *)
(* stripping and substring search are computed and not assumed.  Amounts   *)
(* are integers (the code uses floats; no claim here depends on rounding). *)
(***************************************************************************)
EXTENDS Integers, Sequences, FiniteSets, TLC

VARIABLES
    pc,               \* position of the process inside run() / _style_excel()
    config,           \* self.config: the parsed config.json, a function on its keys
    ledger,           \* the rows of the input CSV file, in file order
    df,               \* the DataFrame of run()
    category_summary, \* the DataFrame category_summary of run()
    yoy_chart_data,   \* the pivot written to the ChartData sheet
    out_file,         \* what the report output path holds
    kpi,              \* Top Metrics of the dashboard (rev, exp, profit)
    description,      \* argument of _get_category
    category,         \* result of _get_category
    cat_rows,         \* len(cat_summary) in _style_excel
    years,            \* the years still to be laid out, each with its month numbers
    current_row,      \* the row cursor of _style_excel
    regions,          \* the table regions written on the Dashboard sheet so far
    charts            \* the chart anchors placed on the Dashboard sheet so far

vars == <<pc, config, ledger, df, category_summary, yoy_chart_data, out_file, kpi,
          description, category, cat_rows, years, current_row, regions, charts>>

runVars == <<ledger, df, category_summary, yoy_chart_data, out_file, kpi>>
classifyVars == <<description, category>>
layoutVars == <<cat_rows, years, current_row, regions, charts>>

-----------------------------------------------------------------------------
(* Bounds of the model *)

MaxDescLen == 3
MaxRules == 2
MaxLedgerRows == 3
MaxCatRows == 3

-----------------------------------------------------------------------------
(* Text *)

UpperCase == <<"A","B","C","D","E","F","G","H","I","J","K","L","M",
               "N","O","P","Q","R","S","T","U","V","W","X","Y","Z">>
LowerCase == <<"a","b","c","d","e","f","g","h","i","j","k","l","m",
               "n","o","p","q","r","s","t","u","v","w","x","y","z">>

\* str.lower() on one character
LowerChar(c) ==
    IF \E i \in DOMAIN UpperCase : UpperCase[i] = c
    THEN LowerCase[CHOOSE i \in DOMAIN UpperCase : UpperCase[i] = c]
    ELSE c

\* str.lower()
Lower(s) == [i \in 1..Len(s) |-> LowerChar(s[i])]

\* Python's `k in s` on strings: k occurs in s as a contiguous substring
IsSubstring(k, s) ==
    \E i \in 0..(Len(s) - Len(k)) : SubSeq(s, i + 1, i + Len(k)) = k

\* str.strip(): drop leading and trailing blanks
RECURSIVE LStrip(_)
LStrip(s) == IF s # <<>> /\ Head(s) = " " THEN LStrip(Tail(s)) ELSE s

RECURSIVE RStrip(_)
RStrip(s) ==
    IF s # <<>> /\ s[Len(s)] = " " THEN RStrip(SubSeq(s, 1, Len(s) - 1)) ELSE s

Strip(s) == RStrip(LStrip(s))

-----------------------------------------------------------------------------
(* Classifier: FinancialEngine._get_category *)

Uncategorized == <<"U","n","c","a","t","e","g","o","r","i","z","e","d">>

\* `for keyword in keywords: if keyword in desc_lower` of one category
AnyKeywordIn(keywords, desc_lower) ==
    \E j \in 1..Len(keywords) : IsSubstring(keywords[j], desc_lower)

\* the loop over self.config['categories'].items() from position i on
RECURSIVE ScanCategories(_, _, _)
ScanCategories(cats, i, desc_lower) ==
    IF i > Len(cats) THEN Uncategorized
    ELSE IF AnyKeywordIn(cats[i].keywords, desc_lower) THEN cats[i].name
    ELSE ScanCategories(cats, i + 1, desc_lower)

\* faulty variant: the description is not lower-cased before matching
GetCategoryNoLower(desc) == ScanCategories(config["categories"], 1, desc)

\* faulty variant: the last matching category wins instead of the first
RECURSIVE ScanCategoriesLast(_, _, _)
ScanCategoriesLast(cats, i, desc_lower) ==
    IF i < 1 THEN Uncategorized
    ELSE IF AnyKeywordIn(cats[i].keywords, desc_lower) THEN cats[i].name
    ELSE ScanCategoriesLast(cats, i - 1, desc_lower)

GetCategoryLastMatch(desc) ==
    ScanCategoriesLast(config["categories"], Len(config["categories"]), Lower(desc))

GetCategory(desc) == ScanCategories(config["categories"], 1, Lower(desc))


-----------------------------------------------------------------------------
(* Names used by the configurations and the code *)

Revenue == <<"R","e","v","e","n","u","e">>
Tech == <<"T","e","c","h">>
Meals == <<"M","e","a","l","s">>

NotRun == "not run"

\* the dashboard has shown nothing yet
NoKpi == [shown |-> FALSE]

-----------------------------------------------------------------------------
(* Specification of the classifier alone: every description up to           *)
(* MaxDescLen over DescChars against every ordered rule set up to MaxRules. *)

DescChars == {"a", "b", "A"}

RECURSIVE SeqsUpTo(_, _)
SeqsUpTo(S, n) ==
    IF n = 0 THEN {<<>>}
    ELSE LET shorter == SeqsUpTo(S, n - 1)
         IN shorter \cup {Append(s, x) : s \in {t \in shorter : Len(t) = n - 1}, x \in S}

Descriptions == SeqsUpTo(DescChars, MaxDescLen)

\* keyword lists of a category; <<"A">> is a keyword that is not lower-case,
\* << <<>> >> holds the empty keyword
KeywordLists ==
    { <<>>,
      << <<"a">> >>,
      << <<"b">>, <<"a">> >>,
      << <<"a","b">> >>,
      << <<"A">> >>,
      << <<>> >> }

CategoryNames == {Revenue, Tech, Meals}

\* a dict has each key once: the names of a rule set are pairwise distinct
RuleSets ==
    { r \in SeqsUpTo([name : CategoryNames, keywords : KeywordLists], MaxRules) :
        \A i, j \in 1..Len(r) : i # j => r[i].name # r[j].name }

InitClassify ==
    /\ pc = "classify"
    /\ config \in {[categories |-> r] : r \in RuleSets}
    /\ description \in Descriptions
    /\ category = NotRun
    /\ ledger = <<>> /\ df = <<>> /\ category_summary = <<>> /\ yoy_chart_data = <<>>
    /\ out_file = "absent" /\ kpi = NoKpi
    /\ cat_rows = 0 /\ years = <<>> /\ current_row = 0 /\ regions = <<>> /\ charts = <<>>

\* one call of _get_category
Classify ==
    /\ pc = "classify"
    /\ category' = GetCategory(description)
    /\ pc' = "returned"
    /\ UNCHANGED <<config, description, runVars, layoutVars>>

NextClassify == Classify

SpecClassify == InitClassify /\ [][NextClassify]_vars

\* the categories of the rule set, by position, that have a keyword occurring
\* in the lower-cased description
MatchingPositions ==
    LET cats == config["categories"]
    IN {i \in 1..Len(cats) :
          \E j \in 1..Len(cats[i].keywords) :
             IsSubstring(cats[i].keywords[j], Lower(description))}

\* C1: _get_category returns the first category, in declared order, one of
\* whose keywords is a substring of the lower-cased description, and
\* "Uncategorized" when there is none; when categories A (earlier) and B both
\* match, the result is never B.
C1_FirstMatchWins ==
    pc = "returned" =>
        LET cats == config["categories"]
        IN /\ MatchingPositions = {} => category = Uncategorized
           /\ MatchingPositions # {} =>
                \E i \in MatchingPositions :
                    /\ \A k \in MatchingPositions : i <= k
                    /\ category = cats[i].name
           /\ \A a, b \in MatchingPositions : a < b => category # cats[b].name

\* a description with an upper-case letter that matches two categories was
\* classified as the one declared first
C1_Witness ==
    /\ pc = "returned"
    /\ Cardinality(MatchingPositions) = 2
    /\ Lower(description) # description
    /\ category = config["categories"][1].name


-----------------------------------------------------------------------------
(* Dashboard layout: FinancialEngine._style_excel.  A region is a rectangle *)
(* of cells of the Dashboard sheet; columns are numbered A = 1, B = 2, ...  *)

ExpenseTableHeaderRow == 4  \* "B4:C{t1_end}", t1_end = 4 + cat_rows
FirstYearOffset == 4        \* current_row = t1_end + 4
YearSpacer == 3             \* current_row += 3

\* `rows` is the number of data rows written into the region
Region(kind, year, rows, top, bottom, left, right) ==
    [kind |-> kind, year |-> year, rows |-> rows, top |-> top, bottom |-> bottom,
     left |-> left, right |-> right]

\* ws['B2'] = report_title
TitleRegion == Region("Title", 0, 0, 2, 2, 2, 2)

\* t1_end = 4 + cat_rows
T1End(n) == ExpenseTableHeaderRow + n

\* Table(displayName="ExpenseTable", ref=f"B4:C{t1_end}")
ExpenseTableRegion(n) == Region("ExpenseTable", 0, n, ExpenseTableHeaderRow, T1End(n), 2, 3)

\* ws.add_chart(chart1, "E4")
DoughnutChartAnchor == [chart |-> "Doughnut", col |-> 5, row |-> 4]

\* faulty variant: the line chart anchored below the stacked tables, at the cursor
YoYChartAnchorAtCursor == [chart |-> "YearOverYear", col |-> 8, row |-> current_row]

\* ws.add_chart(chart2, "H4")
YoYChartAnchor == [chart |-> "YearOverYear", col |-> 8, row |-> 4]

\* ws[f'B{current_row}'] = f"{year} Financial Performance"
YearLabelRegion(year, cur) == Region("YearLabel", year, 0, cur, cur, 2, 2)

\* the header row "Month" / "Revenue" comes right after the label
StartTableRow(cur) == cur + 1

\* the last data row: one `current_row += 1` per row of `monthly`
LastTableRow(cur, nMonths) == StartTableRow(cur) + nMonths

\* Table(displayName=f"Table_{year}", ref=f"B{start_table_row}:C{current_row}")
YearTableRegion(year, cur, nMonths) ==
    Region("YearTable", year, nMonths,
           StartTableRow(cur), LastTableRow(cur, nMonths), 2, 3)

\* faulty variant: the spacer is added to the header row, the data rows forgotten
CursorAfterYearNoRows(cur, nMonths) == StartTableRow(cur) + YearSpacer

\* the cursor after the year: `current_row += 3` from the last data row
CursorAfterYear(cur, nMonths) == LastTableRow(cur, nMonths) + YearSpacer

-----------------------------------------------------------------------------
(* Specification of the layout alone: cat_rows up to MaxCatRows and up to   *)
(* MaxYears years, each with one of the month sets of MonthSets.            *)

MaxYears == 3

MonthSets == { {1}, {1, 2}, {3, 7, 12}, 1..12 }

\* sorted(full_df['Year'].unique()), each year with its distinct MonthNum
YearLists ==
    { ys \in SeqsUpTo([year : 2024..(2024 + MaxYears - 1), months : MonthSets],
                      MaxYears) :
        \A i \in 1..(Len(ys) - 1) : ys[i].year < ys[i + 1].year }

\* cat_summary has a row only if the ledger has a row, and then a year exists
InitLayout ==
    /\ pc = "style"
    /\ years \in YearLists
    /\ cat_rows \in 0..MaxCatRows
    /\ years = <<>> => cat_rows = 0
    /\ current_row = 0 /\ regions = <<>> /\ charts = <<>>
    /\ config = [categories |-> <<>>]
    /\ description = <<>> /\ category = NotRun
    /\ ledger = <<>> /\ df = <<>> /\ category_summary = <<>> /\ yoy_chart_data = <<>>
    /\ out_file = "unstyled" /\ kpi = NoKpi

\* sections 0, 1 and 2 of _style_excel, up to `current_row = t1_end + 4`
StyleExpenseTable ==
    /\ pc = "style"
    /\ regions' = <<TitleRegion, ExpenseTableRegion(cat_rows)>>
    /\ charts' = <<DoughnutChartAnchor>>
    /\ current_row' = T1End(cat_rows) + FirstYearOffset
    /\ pc' = "yearly"
    /\ UNCHANGED <<config, cat_rows, years, runVars, classifyVars>>

\* one iteration of `for year in years`
WriteYearTable ==
    /\ pc = "yearly"
    /\ years # <<>>
    /\ LET y == Head(years)
           n == Cardinality(y.months)
       IN /\ regions' = regions \o <<YearLabelRegion(y.year, current_row),
                                      YearTableRegion(y.year, current_row, n)>>
          /\ current_row' = CursorAfterYear(current_row, n)
    /\ years' = Tail(years)
    /\ UNCHANGED <<pc, config, cat_rows, charts, runVars, classifyVars>>

\* section 4 of _style_excel, after the loop
PlaceYoYChart ==
    /\ pc = "yearly"
    /\ years = <<>>
    /\ charts' = Append(charts, YoYChartAnchor)
    /\ pc' = "charted"
    /\ UNCHANGED <<config, cat_rows, years, current_row, regions, runVars, classifyVars>>

\* column widths and wb.save(file_path)
SaveStyled ==
    /\ pc = "charted"
    /\ pc' = "saved"
    /\ out_file' = "complete"
    /\ UNCHANGED <<config, ledger, df, category_summary, yoy_chart_data, kpi,
                   layoutVars, classifyVars>>

NextLayout == StyleExpenseTable \/ WriteYearTable \/ PlaceYoYChart \/ SaveStyled

SpecLayout == InitLayout /\ [][NextLayout]_vars

Disjoint(r, s) ==
    \/ r.bottom < s.top \/ s.bottom < r.top
    \/ r.right < s.left \/ s.right < r.left

\* rows a year takes on the sheet: its label, its header row, one row per month
RowsConsumed(table) == 1 + 1 + table.rows

\* the blank rows left under a yearly table: the cursor stands on the table's
\* last row when YearSpacer is added to it
BlankRowsAfterYear == YearSpacer - 1

YearLabels == {i \in 1..Len(regions) : regions[i].kind = "YearLabel"}

\* C2: no two regions written on the Dashboard sheet (expense table, year
\* labels, yearly tables) share a cell; every region starts strictly below the
\* region placed before it; and from one year's label to the cursor after that
\* year (the next label, or current_row after the last year) the cursor has
\* advanced by the rows the year consumed plus the fixed number of blank rows.
C2_NoOverlapExactAdvance ==
    /\ \A i, j \in 1..Len(regions) : i < j => Disjoint(regions[i], regions[j])
    /\ \A i \in 1..Len(regions) :
          regions[i].kind = "ExpenseTable" =>
              regions[i].top = 4 /\ regions[i].bottom = 4 + cat_rows
    /\ \A i \in 1..(Len(regions) - 1) : regions[i + 1].top > regions[i].bottom
    /\ \A i \in YearLabels :
          LET next == IF i + 2 <= Len(regions) THEN regions[i + 2].top ELSE current_row
          IN /\ regions[i + 1].kind = "YearTable"
             /\ regions[i + 1].year = regions[i].year
             /\ regions[i + 1].top = regions[i].top + 1
             /\ regions[i + 1].bottom = regions[i + 1].top + regions[i + 1].rows
             /\ next - regions[i].top = RowsConsumed(regions[i + 1]) + BlankRowsAfterYear

\* three years were laid out under a non-empty expense table, one of them
\* with twelve months
C2_Witness ==
    /\ pc = "charted"
    /\ cat_rows = MaxCatRows
    /\ Cardinality(YearLabels) = 3
    /\ \E i \in 1..Len(regions) :
          regions[i].kind = "YearTable" /\ regions[i].bottom - regions[i].top = 12

YearTables == {i \in 1..Len(regions) : regions[i].kind = "YearTable"}

TrendCharts == {i \in 1..Len(charts) : charts[i].chart = "YearOverYear"}

\* C3 as claimed: the trend chart is anchored at the final cursor, at or below
\* the last yearly table's last row plus the spacer
C3_AnchorAtFinalCursor ==
    pc \in {"charted", "saved"} =>
        \A c \in TrendCharts :
            /\ charts[c].row = current_row
            /\ \A t \in YearTables : charts[c].row >= regions[t].bottom + YearSpacer

\* C3 amended: for any number of years the trend chart is anchored at the
\* fixed cell H4, whatever the cursor is; its column lies strictly to the right
\* of every yearly table and label, so it shares no cell with any of them.
C3_AnchorFixedRightOfTables ==
    pc \in {"charted", "saved"} =>
        /\ Cardinality(TrendCharts) = 1
        /\ \A c \in TrendCharts :
              /\ charts[c].col = 8 /\ charts[c].row = 4
              /\ \A t \in YearTables \cup YearLabels : charts[c].col > regions[t].right

\* the chart was placed after two yearly tables that reach below its row
C3_Witness ==
    /\ pc = "charted"
    /\ Cardinality(YearTables) >= 2
    /\ TrendCharts # {}
    /\ \A t \in YearTables : regions[t].top > 4
    /\ current_row > 4


-----------------------------------------------------------------------------
(* Ledger cells and their conversions (run(), "Cleaning")                   *)

\* a date cell of the CSV: year-month-day text, other text, or a missing cell
DateText(y, m, d) == [kind |-> "ymd", y |-> y, m |-> m, d |-> d]
OtherText == [kind |-> "text", y |-> 0, m |-> 0, d |-> 0]
MissingDate == [kind |-> "nan", y |-> 0, m |-> 0, d |-> 0]

NaT == [nat |-> TRUE, year |-> 0, month |-> 0, day |-> 0]

IsLeap(y) == (y % 4 = 0 /\ y % 100 # 0) \/ y % 400 = 0

DaysInMonth(y, m) ==
    IF m = 2 THEN (IF IsLeap(y) THEN 29 ELSE 28)
    ELSE IF m \in {4, 6, 9, 11} THEN 30 ELSE 31

\* pd.to_datetime(..., errors='coerce') on one cell: NaT unless the cell is a
\* calendar date
ToDatetime(cell) ==
    IF /\ cell.kind = "ymd"
       /\ cell.m \in 1..12
       /\ cell.d \in 1..DaysInMonth(cell.y, cell.m)
    THEN [nat |-> FALSE, year |-> cell.y, month |-> cell.m, day |-> cell.d]
    ELSE NaT

\* an amount cell: a number, other text, or a missing cell
Number(v) == [kind |-> "num", v |-> v]
NotANumber == [kind |-> "text", v |-> 0]
MissingAmount == [kind |-> "nan", v |-> 0]

\* pd.to_numeric(..., errors='coerce').fillna(0) on one cell
ToNumericFillna(cell) == IF cell.kind = "num" THEN cell.v ELSE 0

\* a description cell: text, or a missing cell
Text(t) == [nan |-> FALSE, text |-> t]
MissingText == [nan |-> TRUE, text |-> <<>>]

\* .fillna("").astype(str).str.strip() on one cell
CleanDescription(cell) == IF cell.nan THEN <<>> ELSE Strip(cell.text)

\* faulty variant: dropna also drops the rows whose amount did not parse
KeepsRowStrictAmount(raw) == ~ToDatetime(raw.date).nat /\ raw.amount.kind = "num"

\* df.dropna(subset=['Date']) keeps the row
KeepsRow(raw) == ~ToDatetime(raw.date).nat

\* lines 53-56 on the rows from position i on; `idx` is the DataFrame index,
\* the position of the row in the file
RECURSIVE CleanRows(_, _)
CleanRows(rows, i) ==
    IF i > Len(rows) THEN <<>>
    ELSE IF KeepsRow(rows[i])
    THEN <<[idx |-> i,
            Date |-> ToDatetime(rows[i].date),
            Description |-> CleanDescription(rows[i].description),
            Amount |-> ToNumericFillna(rows[i].amount)]>> \o CleanRows(rows, i + 1)
    ELSE CleanRows(rows, i + 1)

\* df['Category'] = df['Description'].apply(self._get_category)
WithCategory(row) ==
    [idx |-> row.idx, Date |-> row.Date, Description |-> row.Description,
     Amount |-> row.Amount, Category |-> GetCategory(row.Description)]


-----------------------------------------------------------------------------
(* Aggregation (run(), "PREPARE DATA FOR DASHBOARD")                        *)

RECURSIVE SumAmount(_)
SumAmount(rows) == IF rows = <<>> THEN 0 ELSE Head(rows).Amount + SumAmount(Tail(rows))

\* the code point of a character, for Python's ordering of strings
CodePoint(c) ==
    IF \E i \in DOMAIN UpperCase : UpperCase[i] = c
    THEN 64 + (CHOOSE i \in DOMAIN UpperCase : UpperCase[i] = c)
    ELSE IF \E i \in DOMAIN LowerCase : LowerCase[i] = c
    THEN 96 + (CHOOSE i \in DOMAIN LowerCase : LowerCase[i] = c)
    ELSE 32

\* a < b in Python's ordering of strings
RECURSIVE StrLess(_, _)
StrLess(a, b) ==
    IF b = <<>> THEN FALSE
    ELSE IF a = <<>> THEN TRUE
    ELSE IF Head(a) = Head(b) THEN StrLess(Tail(a), Tail(b))
    ELSE CodePoint(Head(a)) < CodePoint(Head(b))

\* the elements of a set of strings in ascending order
RECURSIVE SortedNames(_)
SortedNames(S) ==
    IF S = {} THEN <<>>
    ELSE LET least == CHOOSE x \in S : \A y \in S \ {x} : StrLess(x, y)
         IN <<least>> \o SortedNames(S \ {least})

\* the elements of a set of integers in ascending order
RECURSIVE SortedInts(_)
SortedInts(S) ==
    IF S = {} THEN <<>>
    ELSE LET least == CHOOSE x \in S : \A y \in S : x <= y
         IN <<least>> \o SortedInts(S \ {least})

IsRevenue(row) == row.Category = Revenue
IsExpense(row) == row.Category # Revenue

\* expenses = df[df['Category'] != 'Revenue']
Expenses(rows) == SelectSeq(rows, IsExpense)

\* .groupby('Category')['Amount'].sum().reset_index(): one row per category
\* present, in ascending order of the category name
GroupByCategorySum(rows) ==
    LET names == SortedNames({rows[i].Category : i \in 1..Len(rows)})
    IN [k \in 1..Len(names) |->
          [Category |-> names[k],
           Amount |-> SumAmount(SelectSeq(rows, LAMBDA r : r.Category = names[k]))]]

\* .sort_values('Amount', ascending=False) with the default kind='quicksort',
\* which is not stable: every arrangement in descending order of Amount is a
\* possible result, rows of equal Amount in any order
SortValuesDescending(frame) ==
    { [k \in 1..Len(frame) |-> frame[p[k]]] : p \in
        { q \in Permutations(1..Len(frame)) :
            \A i, j \in 1..Len(frame) : i < j => frame[q[i]].Amount >= frame[q[j]].Amount } }

\* lines 68-69: the Year and MonthNum columns
WithYearMonth(row) ==
    [idx |-> row.idx, Date |-> row.Date, Description |-> row.Description,
     Amount |-> row.Amount, Category |-> row.Category,
     Year |-> row.Date.year, MonthNum |-> row.Date.month]

\* month_map
MonthAbbr == <<"Jan", "Feb", "Mar", "Apr", "May", "Jun",
               "Jul", "Aug", "Sep", "Oct", "Nov", "Dec">>

\* aggfunc='sum' of one (MonthNum, Year) cell; a cell without transactions
\* is NaN in the pivot and 0 after .fillna(0)
PivotCell(rows, y, m) ==
    SumAmount(SelectSeq(rows, LAMBDA r : r.Year = y /\ r.MonthNum = m))

\* df.pivot_table(index='MonthNum', columns='Year', values='Amount',
\* aggfunc='sum').fillna(0) with the Month column inserted: the index holds
\* the MonthNum values present in df, the columns the Year values present
PivotTable(rows) ==
    LET ys == SortedInts({rows[i].Year : i \in 1..Len(rows)})
        ms == SortedInts({rows[i].MonthNum : i \in 1..Len(rows)})
    IN [columns |-> ys,
        rows |-> [k \in 1..Len(ms) |->
                    [MonthNum |-> ms[k],
                     Month |-> MonthAbbr[ms[k]],
                     cells |-> [c \in 1..Len(ys) |-> PivotCell(rows, ys[c], ms[k])]]]]

NoPivot == [columns |-> <<>>, rows |-> <<>>]

\* sorted(full_df['Year'].unique()) with, per year, the MonthNum groups of
\* year_data.groupby('MonthNum')
YearsOf(rows) ==
    LET ys == SortedInts({rows[i].Year : i \in 1..Len(rows)})
    IN [k \in 1..Len(ys) |->
          [year |-> ys[k],
           months |-> {rows[i].MonthNum : i \in {j \in 1..Len(rows) : rows[j].Year = ys[k]}}]]

\* the whole yearly loop of _style_excel: the regions it writes and the
\* cursor it ends with
RECURSIVE YearlyTables(_, _)
YearlyTables(ys, cur) ==
    IF ys = <<>> THEN [regions |-> <<>>, cursor |-> cur]
    ELSE LET y == Head(ys)
             n == Cardinality(y.months)
             rest == YearlyTables(Tail(ys), CursorAfterYear(cur, n))
         IN [regions |-> <<YearLabelRegion(y.year, cur), YearTableRegion(y.year, cur, n)>>
                          \o rest.regions,
             cursor |-> rest.cursor]

-----------------------------------------------------------------------------
(* Top Metrics of the dashboard (src/src/dashboard.py)                      *)

\* faulty variant: expenses are reported as magnitudes
TopMetricsMagnitudes(view) ==
    LET rev == SumAmount(SelectSeq(view, IsRevenue))
        exp == SumAmount(SelectSeq(view, IsExpense))
    IN [rev |-> rev, exp |-> IF exp < 0 THEN -exp ELSE exp,
        profit |-> rev - (IF exp < 0 THEN -exp ELSE exp)]

\* rev, exp and profit of a view
TopMetrics(view) ==
    LET rev == SumAmount(SelectSeq(view, IsRevenue))
        exp == SumAmount(SelectSeq(view, IsExpense))
    IN [rev |-> rev, exp |-> exp, profit |-> rev - exp]


-----------------------------------------------------------------------------
(* Specification of a whole run: FinancialEngine.run on every ledger of up  *)
(* to MaxLedgerRows rows drawn from LedgerRows, under every configuration   *)
(* of Configs, followed by the dashboard's Top Metrics on a selected view.  *)

Row(date, desc, amount) == [date |-> date, description |-> desc, amount |-> amount]

StripePayout == <<"S","T","R","I","P","E"," ","P","A","Y","O","U","T">>
GithubBilling == <<"G","i","t","h","u","b"," ","b","i","l","l","i","n","g">>
Starbucks == <<"S","t","a","r","b","u","c","k","s">>
PaddedGithub == <<" ","G","I","T","H","U","B"," ">>

LedgerRows ==
    { Row(DateText(2024, 1, 5), Text(StripePayout), Number(500)),
      Row(DateText(2024, 1, 10), Text(GithubBilling), Number(-20)),
      Row(DateText(2024, 2, 1), Text(Starbucks), Number(-8)),
      Row(OtherText, Text(GithubBilling), Number(10)),
      Row(DateText(2025, 2, 30), Text(StripePayout), MissingAmount),
      Row(DateText(2025, 1, 15), MissingText, NotANumber),
      Row(DateText(2025, 3, 1), Text(PaddedGithub), Number(-8)) }

Ledgers == SeqsUpTo(LedgerRows, MaxLedgerRows)

ExampleRules ==
    << [name |-> Revenue, keywords |-> << <<"s","t","r","i","p","e">> >>],
       [name |-> Tech, keywords |-> << <<"g","i","t","h","u","b">> >>],
       [name |-> Meals, keywords |-> << <<"s","t","a","r","b","u","c","k","s">> >>] >>

Files == [input |-> "data.csv", output |-> "report.xlsx"]
Mapping == [date |-> "Date", description |-> "Memo", amount |-> "Cost"]

\* config.json as loaded by __init__: complete, without `categories`,
\* without `column_mapping`
Configs ==
    { [files |-> Files, column_mapping |-> Mapping, categories |-> ExampleRules],
      [files |-> Files, column_mapping |-> Mapping],
      [files |-> Files, categories |-> ExampleRules] }

HasKey(cfg, key) == key \in DOMAIN cfg

\* the state after FinancialEngine(client_folder_path): the configuration is
\* loaded; the output path holds nothing or an earlier report
Init ==
    /\ pc = "run"
    /\ config \in Configs
    /\ ledger \in Ledgers
    /\ out_file \in {"absent", "previous"}
    /\ df = <<>> /\ category_summary = <<>> /\ yoy_chart_data = NoPivot
    /\ kpi = NoKpi
    /\ description = <<>> /\ category = NotRun
    /\ cat_rows = 0 /\ years = <<>> /\ current_row = 0 /\ regions = <<>> /\ charts = <<>>

\* lines 38-42: df = pd.read_csv(input_path)
ReadCsv ==
    /\ pc = "run"
    /\ df' = ledger
    /\ pc' = "read"
    /\ UNCHANGED <<config, ledger, category_summary, yoy_chart_data, out_file, kpi,
                   classifyVars, layoutVars>>

\* lines 45-50: mapping = self.config['column_mapping'] raises KeyError when
\* the key is absent
MapColumns ==
    /\ pc = "read"
    /\ pc' = IF HasKey(config, "column_mapping") THEN "mapped" ELSE "failed"
    /\ UNCHANGED <<config, runVars, classifyVars, layoutVars>>

\* lines 53-56: "Cleaning"
Clean ==
    /\ pc = "mapped"
    /\ df' = CleanRows(df, 1)
    /\ pc' = "cleaned"
    /\ UNCHANGED <<config, ledger, category_summary, yoy_chart_data, out_file, kpi,
                   classifyVars, layoutVars>>

\* line 57: Series.apply calls _get_category once per row; it reads
\* self.config['categories'] (KeyError when absent) only when it is called
ClassifyRows ==
    /\ pc = "cleaned"
    /\ IF df # <<>> /\ ~HasKey(config, "categories")
       THEN pc' = "failed" /\ df' = df
       ELSE /\ pc' = "classified"
            /\ df' = [i \in 1..Len(df) |-> WithCategory(df[i])]
    /\ UNCHANGED <<config, ledger, category_summary, yoy_chart_data, out_file, kpi,
                   classifyVars, layoutVars>>

\* lines 61-77: expense breakdown, Year/MonthNum columns, year-over-year pivot
Aggregate ==
    /\ pc = "classified"
    /\ category_summary' \in SortValuesDescending(GroupByCategorySum(Expenses(df)))
    /\ df' = [i \in 1..Len(df) |-> WithYearMonth(df[i])]
    /\ yoy_chart_data' = PivotTable(df')
    /\ pc' = "aggregated"
    /\ UNCHANGED <<config, ledger, out_file, kpi, classifyVars, layoutVars>>

\* line 85: pd.ExcelWriter(output_path) opens the output path for writing
OpenWriter ==
    /\ pc = "aggregated"
    /\ out_file' = "partial"
    /\ pc' = "writing"
    /\ UNCHANGED <<config, ledger, df, category_summary, yoy_chart_data, kpi,
                   classifyVars, layoutVars>>

\* lines 86-95: the three sheets are written and the writer is closed
CloseWriter ==
    /\ pc = "writing"
    /\ out_file' = "unstyled"
    /\ pc' = "written"
    /\ UNCHANGED <<config, ledger, df, category_summary, yoy_chart_data, kpi,
                   classifyVars, layoutVars>>

\* lines 101-208: _style_excel on the workbook loaded in memory
StyleWorkbook ==
    /\ pc = "written"
    /\ cat_rows' = Len(category_summary)
    /\ LET t1_end == T1End(Len(category_summary))
           yearly == YearlyTables(YearsOf(df), t1_end + FirstYearOffset)
       IN /\ regions' = <<TitleRegion, ExpenseTableRegion(Len(category_summary))>>
                          \o yearly.regions
          /\ current_row' = yearly.cursor
    /\ charts' = <<DoughnutChartAnchor, YoYChartAnchor>>
    /\ years' = <<>>
    /\ pc' = "styled"
    /\ UNCHANGED <<config, runVars, classifyVars>>

\* line 210: wb.save(file_path) rewrites the output path in place
SaveBegin ==
    /\ pc = "styled"
    /\ out_file' = "partial"
    /\ pc' = "saving"
    /\ UNCHANGED <<config, ledger, df, category_summary, yoy_chart_data, kpi,
                   classifyVars, layoutVars>>

SaveEnd ==
    /\ pc = "saving"
    /\ out_file' = "complete"
    /\ pc' = "done"
    /\ UNCHANGED <<config, ledger, df, category_summary, yoy_chart_data, kpi,
                   classifyVars, layoutVars>>

Running == {"run", "read", "mapped", "cleaned", "classified", "aggregated",
            "writing", "written", "styled", "saving"}

\* the process is interrupted, or a write fails, at any point of run()
Interrupt ==
    /\ pc \in Running
    /\ pc' = "interrupted"
    /\ UNCHANGED <<config, runVars, classifyVars, layoutVars>>

\* dashboard.py lines 81-95 on the classified transactions: the year selected
\* in the sidebar (none when there is no data), the month selected ("All
\* Months" = 0 or one month of that year), and the Top Metrics of the view
ShowTopMetrics ==
    /\ pc = "done"
    /\ ~kpi.shown
    /\ \E y \in (IF df = <<>> THEN {0} ELSE {df[i].Year : i \in 1..Len(df)}) :
         LET df_year == SelectSeq(df, LAMBDA r : r.Year = y)
         IN \E m \in {0} \cup {df_year[i].MonthNum : i \in 1..Len(df_year)} :
              LET df_view == IF m = 0 THEN df_year
                             ELSE SelectSeq(df_year, LAMBDA r : r.MonthNum = m)
                  top == TopMetrics(df_view)
              IN kpi' = [shown |-> TRUE, year |-> y, month |-> m, view |-> df_view,
                         rev |-> top.rev, exp |-> top.exp, profit |-> top.profit]
    /\ UNCHANGED <<pc, config, ledger, df, category_summary, yoy_chart_data, out_file,
                   classifyVars, layoutVars>>

Next ==
    \/ ReadCsv \/ MapColumns \/ Clean \/ ClassifyRows \/ Aggregate
    \/ OpenWriter \/ CloseWriter \/ StyleWorkbook \/ SaveBegin \/ SaveEnd
    \/ Interrupt \/ ShowTopMetrics

Spec == Init /\ [][Next]_vars


-----------------------------------------------------------------------------
(* Properties of a run *)

AfterClean == {"cleaned", "classified", "aggregated", "writing", "written",
               "styled", "saving", "done"}
AfterClassify == AfterClean \ {"cleaned"}
AfterAggregate == AfterClassify \ {"classified"}

\* the sum of f over a set of positions
RECURSIVE SumOver(_, _)
SumOver(I, f) ==
    IF I = {} THEN 0
    ELSE LET i == CHOOSE k \in I : TRUE IN f[i] + SumOver(I \ {i}, f)

\* the sum of the amounts of the rows of `rows` whose category is in `cats`
Total(rows, cats) ==
    SumOver({i \in 1..Len(rows) : rows[i].Category \in cats},
            [i \in 1..Len(rows) |-> rows[i].Amount])

\* the categories of `rows` other than "Revenue"
ExpenseCategories(rows) == {rows[i].Category : i \in 1..Len(rows)} \ {Revenue}

\* C4 as claimed: the year-over-year matrix has exactly twelve rows, months
\* 1..12 ascending, one column per distinct year ascending, and each cell is
\* the sum of the amounts of its (year, month), 0 when there are none.
C4_TwelveMonthRows ==
    pc \in AfterAggregate =>
        LET ys == {df[i].Year : i \in 1..Len(df)}
            cols == yoy_chart_data.columns
            rows == yoy_chart_data.rows
        IN /\ Len(rows) = 12
           /\ \A k \in 1..Len(rows) : rows[k].MonthNum = k
           /\ {cols[c] : c \in 1..Len(cols)} = ys
           /\ Len(cols) = Cardinality(ys)
           /\ \A c \in 1..(Len(cols) - 1) : cols[c] < cols[c + 1]
           /\ \A k \in 1..Len(rows) : \A c \in 1..Len(cols) :
                 rows[k].cells[c] =
                    SumOver({i \in 1..Len(df) :
                               df[i].Year = cols[c] /\ df[i].MonthNum = rows[k].MonthNum},
                            [i \in 1..Len(df) |-> df[i].Amount])

\* C5: for the transactions of any view, profit = revenue - expenses, where
\* revenue is the sum of the amounts categorised "Revenue" and expenses the sum
\* of all other amounts, and the totals of the expense breakdown of the same
\* transactions add up to expenses.
C5_Reconciliation ==
    kpi.shown =>
        /\ kpi.rev = Total(kpi.view, {Revenue})
        /\ kpi.exp = Total(kpi.view, ExpenseCategories(kpi.view))
        /\ kpi.profit = kpi.rev - kpi.exp
        /\ SumAmount(GroupByCategorySum(Expenses(kpi.view))) = kpi.exp
        /\ kpi.view = df => SumAmount(category_summary) = kpi.exp

\* the metrics were shown for a view with revenue and two expense categories
C5_Witness ==
    /\ kpi.shown
    /\ kpi.rev # 0
    /\ Len(GroupByCategorySum(Expenses(kpi.view))) >= 2
    /\ kpi.exp < 0
    /\ kpi.view = df

ExampleLedger ==
    << Row(DateText(2024, 1, 5), Text(StripePayout), Number(500)),
       Row(DateText(2024, 1, 10), Text(GithubBilling), Number(-20)),
       Row(DateText(2024, 2, 1), Text(Starbucks), Number(-8)) >>

ExampleRun ==
    /\ ledger = ExampleLedger
    /\ HasKey(config, "categories") /\ HasKey(config, "column_mapping")
    /\ config["categories"] = ExampleRules

\* C7 as claimed: the example ledger yields categories Revenue, Tech, Meals,
\* revenue 500, expenses 28, profit 472 and the breakdown (Tech, 20), (Meals, 8).
C7_ExampleAsClaimed ==
    ExampleRun =>
        /\ pc \in AfterClassify =>
              [i \in 1..Len(df) |-> df[i].Category] = <<Revenue, Tech, Meals>>
        /\ pc \in AfterAggregate =>
              category_summary = << [Category |-> Tech, Amount |-> 20],
                                    [Category |-> Meals, Amount |-> 8] >>
        /\ (kpi.shown /\ kpi.month = 0) =>
              kpi.rev = 500 /\ kpi.exp = 28 /\ kpi.profit = 472

\* C7 amended: the example ledger yields categories Revenue, Tech, Meals,
\* revenue 500, expenses -28, profit 528 and the breakdown (Meals, -8),
\* (Tech, -20): amounts are summed with their sign.
C7_ExampleRun ==
    ExampleRun =>
        /\ pc \in AfterClassify =>
              [i \in 1..Len(df) |-> df[i].Category] = <<Revenue, Tech, Meals>>
        /\ pc \in AfterAggregate =>
              category_summary = << [Category |-> Meals, Amount |-> -8],
                                    [Category |-> Tech, Amount |-> -20] >>
        /\ (kpi.shown /\ kpi.month = 0) =>
              kpi.rev = 500 /\ kpi.exp = -28 /\ kpi.profit = 528

\* the example ledger went through the whole run and its metrics were shown
C7_Witness ==
    /\ ExampleRun
    /\ pc = "done"
    /\ kpi.shown /\ kpi.month = 0 /\ kpi.year = 2024
    /\ Len(category_summary) = 2

\* C8 as claimed: when run() fails or is interrupted, the output path holds
\* what it held before the run or the complete, styled report.
C8_NoPartialReport ==
    pc \in {"failed", "interrupted"} => out_file \in {"absent", "previous", "complete"}

InvalidConfig == ~HasKey(config, "categories") \/ ~HasKey(config, "column_mapping")

\* C9 as claimed: with `categories` or the column mapping absent the run does
\* nothing but fail: the ledger is not read or processed and the output path
\* is not written, whatever the ledger holds.
C9_FailsFast ==
    InvalidConfig =>
        /\ pc \in {"run", "failed", "interrupted"}
        /\ df = <<>>
        /\ out_file \in {"absent", "previous"}

\* C10: the cleaned frame holds exactly the ledger rows whose date parses, in
\* file order; a kept row's amount is the parsed number, or 0 when the amount
\* is missing or unparseable; its description is text, empty when missing.
C10_LoaderKeepsDatedRows ==
    pc \in AfterClean =>
        LET kept == {i \in 1..Len(ledger) : ~ToDatetime(ledger[i].date).nat}
        IN /\ {df[k].idx : k \in 1..Len(df)} = kept
           /\ \A k \in 1..(Len(df) - 1) : df[k].idx < df[k + 1].idx
           /\ \A k \in 1..Len(df) :
                 LET raw == ledger[df[k].idx]
                 IN /\ df[k].Amount = (IF raw.amount.kind = "num" THEN raw.amount.v ELSE 0)
                    /\ df[k].Description = (IF raw.description.nan THEN <<>>
                                            ELSE Strip(raw.description.text))
                    /\ df[k].Date.year = raw.date.y /\ df[k].Date.month = raw.date.m

\* a three-row ledger lost a row to its date and kept, between two other rows,
\* a row without description whose amount did not parse
C10_Witness ==
    /\ pc = "cleaned"
    /\ Len(ledger) = 3 /\ Len(df) = 2
    /\ \E i \in 1..Len(ledger) : ledger[i].date.kind = "ymd" /\ ToDatetime(ledger[i].date).nat
    /\ \E k \in 1..Len(df) :
          /\ ledger[df[k].idx].amount.kind = "text"
          /\ ledger[df[k].idx].description.nan
          /\ df[k].Amount = 0 /\ df[k].Description = <<>>

=============================================================================
